---- MODULE Spec2Model ----
(***************************************************************************)
(* Activation functions of functions.py: step, sigmoid, relu, leaky_relu,  *)
(* tanh, softmax, prelu, elu, softplus.                                    *)
(*                                                                         *)
(* A value is a record [ty, k, n, d, items]:                               *)
(*   ty    the runtime type ("int", "float", "float64", "str", "list" ...) *)
(*   k     "fin" (the rational n/d), "pinf", "ninf", "nan" for numbers,    *)
(*         "ln" (the logarithm of n/d), "obj" for non-numbers, "seq" for   *)
(*         lists and arrays                                                *)
(*   items the elements of a list or array                                 *)
(* Finite arithmetic is exact rational arithmetic; the IEEE specials, the  *)
(* overflow of math.exp and its underflow to 0.0 are modelled, rounding of *)
(* finite results is not.                                                  *)
(***************************************************************************)
EXTENDS Integers, Sequences, FiniteSets, TLC

VARIABLES fn, args, outcome, result, trace

vars == <<fn, args, outcome, result, trace>>

(* ------------------------------ bounds ------------------------------- *)

\* finite in-range scalar inputs are the integers -MaxAbs..MaxAbs
MaxAbs == 2

\* softmax inputs have at most MaxLen elements
MaxLen == 2

(* ------------------------- platform constants ------------------------ *)

\* math.e approximated by the rational EN/ED
EN == 27

ED == 10

\* math.exp raises OverflowError above 709.78..., returns 0.0 below -745.13...
ExpMaxArg == 709

ExpMinArg == -745

\* an input beyond both thresholds of math.exp
Huge == 1000

(* ------------------------------ types -------------------------------- *)

\* functions.py:28-40
nptypes ==
    {"float16", "float32", "float64", "int16", "int32", "int64", "int8",
     "uint16", "uint32", "uint64", "uint8"}

\* the tuple (int, float, *__nptypes) handed to verify_type
NumTypes == {"int", "float"} \cup nptypes

\* the tuple (list, ndarray) handed to verify_type by softmax
SeqTypes == {"list", "ndarray"}

FloatTypes == {"float", "float16", "float32", "float64"}

UnsignedTypes == {"uint8", "uint16", "uint32", "uint64"}

(* ------------------------------ values ------------------------------- *)

RECURSIVE GCD(_, _)
GCD(a, b) == IF b = 0 THEN a ELSE GCD(b, a % b)

Abs(i) == IF i < 0 THEN -i ELSE i

V(ty, k, n, d) == [ty |-> ty, k |-> k, n |-> n, d |-> d, items |-> <<>>]

\* the rational n/d (d > 0) in lowest terms
Fin(ty, n, d) ==
    LET g == GCD(Abs(n), d) IN V(ty, "fin", n \div g, d \div g)

PInf(ty) == V(ty, "pinf", 0, 1)

NInf(ty) == V(ty, "ninf", 0, 1)

NaN(ty) == V(ty, "nan", 0, 1)

PyInt(i) == Fin("int", i, 1)

PyFloat(i) == Fin("float", i, 1)

PySeq(ty, s) == [ty |-> ty, k |-> "seq", n |-> 0, d |-> 1, items |-> s]

PyStr == V("str", "obj", 0, 1)

PyNone == V("NoneType", "obj", 0, 1)

PyTrue == V("bool", "fin", 1, 1)

\* an argument left out of the call, so that its default is used
Omitted == V("omitted", "obj", 0, 1)

\* the result slot of a call that raised
NoValue == V("novalue", "obj", 0, 1)

IsNumber(v) == v.k \in {"fin", "pinf", "ninf", "nan"}

IsZero(v) == v.k = "fin" /\ v.n = 0

\* the type of the result of an arithmetic operation on a and b: a Python
\* scalar adapts to a NumPy operand, except that a Python float with a NumPy
\* integer gives float64
ArithType(a, b) ==
    LET npfloats == FloatTypes \ {"float"} IN
    IF a.ty = "int" /\ b.ty = "int" THEN "int"
    ELSE IF a.ty \notin nptypes /\ b.ty \notin nptypes THEN "float"
    ELSE IF a.ty \in npfloats THEN a.ty
    ELSE IF b.ty \in npfloats THEN b.ty
    ELSE IF a.ty = "float" \/ b.ty = "float" THEN "float64"
    ELSE IF a.ty \in nptypes THEN a.ty
    ELSE b.ty

\* a >= b on numbers; every comparison with NaN is false
Ge(a, b) ==
    IF a.k = "nan" \/ b.k = "nan" THEN FALSE
    ELSE IF a.k = "pinf" \/ b.k = "ninf" THEN TRUE
    ELSE IF a.k = "ninf" \/ b.k = "pinf" THEN FALSE
    ELSE LET g == GCD(a.d, b.d) IN a.n * (b.d \div g) >= b.n * (a.d \div g)

\* a > b
Gt(a, b) == Ge(a, b) /\ ~Ge(b, a)

\* a == b (numeric equality, whatever the types)
NumEq(a, b) == Ge(a, b) /\ Ge(b, a)

Sign(a) ==
    IF a.k = "pinf" THEN 1
    ELSE IF a.k = "ninf" THEN -1
    ELSE IF a.n > 0 THEN 1 ELSE IF a.n < 0 THEN -1 ELSE 0

\* -a
Neg(a) ==
    IF a.k = "pinf" THEN NInf(a.ty)
    ELSE IF a.k = "ninf" THEN PInf(a.ty)
    ELSE IF a.k = "nan" THEN a
    ELSE Fin(a.ty, -a.n, a.d)

\* a * b: inf * 0 is NaN
Mul(a, b) ==
    LET ty == ArithType(a, b) IN
    IF a.k = "nan" \/ b.k = "nan" THEN NaN(ty)
    ELSE IF a.k # "fin" \/ b.k # "fin" THEN
        (IF Sign(a) * Sign(b) = 0 THEN NaN(ty)
         ELSE IF Sign(a) * Sign(b) > 0 THEN PInf(ty) ELSE NInf(ty))
    ELSE LET g1 == GCD(Abs(a.n), b.d)
             g2 == GCD(Abs(b.n), a.d)
         IN Fin(ty, (a.n \div g1) * (b.n \div g2), (a.d \div g2) * (b.d \div g1))

\* a + b: inf + (-inf) is NaN
Add(a, b) ==
    LET ty == ArithType(a, b) IN
    IF a.k = "nan" \/ b.k = "nan" THEN NaN(ty)
    ELSE IF a.k # "fin" /\ b.k # "fin" THEN
        (IF a.k = b.k THEN V(ty, a.k, 0, 1) ELSE NaN(ty))
    ELSE IF a.k # "fin" THEN V(ty, a.k, 0, 1)
    ELSE IF b.k # "fin" THEN V(ty, b.k, 0, 1)
    ELSE LET g == GCD(a.d, b.d)
             l == (a.d \div g) * b.d
         IN Fin(ty, a.n * (l \div a.d) + b.n * (l \div b.d), l)

\* a - b
Sub(a, b) == Add(a, Neg(b))

\* a / b for b # 0 (true division: the result is a float)
TrueDiv(a, b) ==
    LET ty == IF ArithType(a, b) = "int" THEN "float" ELSE ArithType(a, b) IN
    IF a.k = "nan" \/ b.k = "nan" THEN NaN(ty)
    ELSE IF a.k # "fin" /\ b.k # "fin" THEN NaN(ty)
    ELSE IF a.k # "fin" THEN
        (IF Sign(a) * Sign(b) > 0 THEN PInf(ty) ELSE NInf(ty))
    ELSE IF b.k # "fin" THEN Fin(ty, 0, 1)
    ELSE LET g1 == GCD(Abs(a.n), Abs(b.n))
             g2 == GCD(a.d, b.d)
             num == (a.n \div g1) * (b.d \div g2)
             den == (a.d \div g2) * (b.n \div g1)
         IN IF den < 0 THEN Fin(ty, -num, -den) ELSE Fin(ty, num, den)

RECURSIVE IPow(_, _)
IPow(b, p) == IF p = 0 THEN 1 ELSE b * IPow(b, p - 1)

\* math.exp(x) raises OverflowError
ExpOverflows(x) == x.k = "fin" /\ x.n > ExpMaxArg * x.d

\* math.exp(x) where it does not raise: always a Python float, 0.0 on underflow
Exp(x) ==
    IF x.k = "nan" THEN NaN("float")
    ELSE IF x.k = "pinf" THEN PInf("float")
    ELSE IF x.k = "ninf" THEN Fin("float", 0, 1)
    ELSE IF x.n < ExpMinArg * x.d THEN Fin("float", 0, 1)
    ELSE IF x.n >= 0 THEN Fin("float", IPow(EN, x.n), IPow(ED, x.n))
    ELSE Fin("float", IPow(ED, -x.n), IPow(EN, -x.n))

\* math.log(v) for v >= 1: kept symbolic unless v is 1, inf or NaN
Log(v) ==
    IF v.k = "nan" THEN NaN("float")
    ELSE IF v.k = "pinf" THEN PInf("float")
    ELSE IF v.n = v.d THEN Fin("float", 0, 1)
    ELSE V("float", "ln", v.n, v.d)

\* the builtin max(a, b): b only when b > a, else the first argument
PyMax(a, b) == IF Gt(b, a) THEN b ELSE a

(* --------------------------- Type Verifier --------------------------- *)

\* Verifiers.verify_type(value, accepted) passes: exact membership of the type
verify_type(value, accepted) == value.ty \in accepted

(* ------------------------- outcome of a call ------------------------- *)

Return(v, t) == [outcome |-> "returned", result |-> v, trace |-> t]

Raise(e, t) == [outcome |-> e, result |-> NoValue, trace |-> t]

VerifyEvents == {"verify x", "verify threshold", "verify n", "verify lp", "verify alpha"}

ArithEvents == {"compare", "exp", "neg", "add", "sub", "mul", "div", "sum", "max", "log", "index"}

(* ---------------------------- functions ------------------------------ *)

\* 1 if x > threshold: the comparison made strict
step_gt(x, threshold) ==
    IF ~verify_type(x, NumTypes) THEN Raise("TypeMismatch", <<"verify x">>)
    ELSE IF ~verify_type(threshold, NumTypes)
         THEN Raise("TypeMismatch", <<"verify x", "verify threshold">>)
    ELSE Return(IF Gt(x, threshold) THEN PyInt(1) ELSE PyInt(0),
                <<"verify x", "verify threshold", "compare">>)

step(x, threshold) ==
    IF ~verify_type(x, NumTypes) THEN Raise("TypeMismatch", <<"verify x">>)
    ELSE IF ~verify_type(threshold, NumTypes)
         THEN Raise("TypeMismatch", <<"verify x", "verify threshold">>)
    ELSE Return(IF Ge(x, threshold) THEN PyInt(1) ELSE PyInt(0),
                <<"verify x", "verify threshold", "compare">>)

\* x returned without the max
relu_id(x) ==
    IF ~verify_type(x, NumTypes) THEN Raise("TypeMismatch", <<"verify x">>)
    ELSE Return(x, <<"verify x", "max">>)

relu(x) ==
    IF ~verify_type(x, NumTypes) THEN Raise("TypeMismatch", <<"verify x">>)
    ELSE Return(PyMax(PyInt(0), x), <<"verify x", "max">>)

sigmoid(x) ==
    IF ~verify_type(x, NumTypes) THEN Raise("TypeMismatch", <<"verify x">>)
    ELSE IF ExpOverflows(Neg(x)) THEN Raise("OverflowError", <<"verify x", "neg", "exp">>)
    ELSE Return(TrueDiv(PyInt(1), Add(PyInt(1), Exp(Neg(x)))),
                <<"verify x", "neg", "exp", "add", "div">>)

leaky_relu(x) ==
    IF ~verify_type(x, NumTypes) THEN Raise("TypeMismatch", <<"verify x">>)
    ELSE IF Ge(x, PyInt(0)) THEN Return(x, <<"verify x", "compare">>)
    ELSE Return(TrueDiv(x, PyInt(10)), <<"verify x", "compare", "div">>)

tanh(x) ==
    IF ~verify_type(x, NumTypes) THEN Raise("TypeMismatch", <<"verify x">>)
    ELSE IF ExpOverflows(x) THEN Raise("OverflowError", <<"verify x", "exp">>)
    ELSE IF ExpOverflows(Neg(x))
         THEN Raise("OverflowError", <<"verify x", "exp", "neg", "exp">>)
    ELSE Return(TrueDiv(Sub(Exp(x), Exp(Neg(x))), Add(Exp(x), Exp(Neg(x)))),
                <<"verify x", "exp", "neg", "exp", "sub", "exp", "neg", "exp", "add", "div">>)

\* the builtin sum(s): left to right, starting from the int 0
RECURSIVE PySum(_)
PySum(s) ==
    IF s = <<>> THEN PyInt(0)
    ELSE Add(PySum(SubSeq(s, 1, Len(s) - 1)), s[Len(s)])

\* s[n] would be defined only for 0 <= n < len(s)
InRangeNoNegative(s, n) == 0 <= n /\ n < Len(s)

\* s[n] is defined: -len(s) <= n < len(s)
InRange(s, n) == -Len(s) <= n /\ n < Len(s)

\* the position (1-based) of s[n]: a negative n counts from the end
PyIndex(s, n) == IF n >= 0 THEN n + 1 ELSE Len(s) + n + 1

\* e_x = [exp(i) for i in x], where no exp raises
softmax_e_x(x) == [i \in 1 .. Len(x.items) |-> Exp(x.items[i])]

\* a division by a zero sum is performed even when there is no element
softmax_div_by_zero_eager(e_x, sum_e_x) == IsZero(sum_e_x)

\* [i / sum_e_x for i in e_x] raises: one division per element, by a zero sum
softmax_div_by_zero(e_x, sum_e_x) == Len(e_x) > 0 /\ IsZero(sum_e_x)

\* the weights returned as they are
softmax_distr_unnormalised(e_x, sum_e_x) == e_x

\* distr = [i / sum_e_x for i in e_x]
softmax_distr(e_x, sum_e_x) == [i \in 1 .. Len(e_x) |-> TrueDiv(e_x[i], sum_e_x)]

\* return distr[n]
softmax_pick_scalar(distr, n) == distr[PyIndex(distr, n)]

\* return [distr[n]]
softmax_pick(distr, n) == PySeq("list", <<distr[PyIndex(distr, n)]>>)

\* the "exp" events up to and including the first one that raises
ExpsUntilOverflow(x) ==
    LET j == CHOOSE j \in 1 .. Len(x.items) :
                 /\ ExpOverflows(x.items[j])
                 /\ \A h \in 1 .. j - 1 : ~ExpOverflows(x.items[h])
    IN [i \in 1 .. j |-> "exp"]

softmax(x, n) ==
    IF ~verify_type(x, SeqTypes) THEN Raise("TypeMismatch", <<"verify x">>)
    ELSE IF \E i \in 1 .. Len(x.items) : ExpOverflows(x.items[i])
    THEN Raise("OverflowError", <<"verify x">> \o ExpsUntilOverflow(x))
    ELSE
    LET k == Len(x.items)
        e_x == softmax_e_x(x)
        sum_e_x == PySum(e_x)
        t1 == <<"verify x">> \o [i \in 1 .. k |-> "exp"] \o <<"sum">>
    IN
    IF softmax_div_by_zero(e_x, sum_e_x) THEN Raise("ZeroDivisionError", t1 \o <<"div">>)
    ELSE
    LET distr == softmax_distr(e_x, sum_e_x)
        t2 == t1 \o [i \in 1 .. k |-> "div"]
    IN
    IF n # PyNone THEN
        IF ~verify_type(n, {"int"}) THEN Raise("TypeMismatch", t2 \o <<"verify n">>)
        ELSE IF ~InRange(distr, n.n) THEN Raise("IndexError", t2 \o <<"verify n", "index">>)
        ELSE Return(softmax_pick(distr, n.n), t2 \o <<"verify n", "index">>)
    ELSE Return(PySeq("list", distr), t2)

\* max(x, lp * x): the arguments of max swapped
prelu_swapped(x, lp) ==
    IF ~verify_type(x, NumTypes) THEN Raise("TypeMismatch", <<"verify x">>)
    ELSE IF ~verify_type(lp, NumTypes) THEN Raise("TypeMismatch", <<"verify x", "verify lp">>)
    ELSE Return(PyMax(x, Mul(lp, x)), <<"verify x", "verify lp", "mul", "max">>)

prelu(x, lp) ==
    IF ~verify_type(x, NumTypes) THEN Raise("TypeMismatch", <<"verify x">>)
    ELSE IF ~verify_type(lp, NumTypes) THEN Raise("TypeMismatch", <<"verify x", "verify lp">>)
    ELSE Return(PyMax(Mul(lp, x), x), <<"verify x", "verify lp", "mul", "max">>)

\* x if x >= 0: the comparison made non-strict
elu_ge(x, alpha) ==
    IF ~verify_type(x, NumTypes) THEN Raise("TypeMismatch", <<"verify x">>)
    ELSE IF ~verify_type(alpha, NumTypes)
         THEN Raise("TypeMismatch", <<"verify x", "verify alpha">>)
    ELSE IF Ge(x, PyInt(0)) THEN Return(x, <<"verify x", "verify alpha", "compare">>)
    ELSE IF ExpOverflows(x)
         THEN Raise("OverflowError", <<"verify x", "verify alpha", "compare", "exp">>)
    ELSE Return(Mul(alpha, Sub(Exp(x), PyInt(1))),
                <<"verify x", "verify alpha", "compare", "exp", "sub", "mul">>)

elu(x, alpha) ==
    IF ~verify_type(x, NumTypes) THEN Raise("TypeMismatch", <<"verify x">>)
    ELSE IF ~verify_type(alpha, NumTypes)
         THEN Raise("TypeMismatch", <<"verify x", "verify alpha">>)
    ELSE IF Gt(x, PyInt(0)) THEN Return(x, <<"verify x", "verify alpha", "compare">>)
    ELSE IF ExpOverflows(x)
         THEN Raise("OverflowError", <<"verify x", "verify alpha", "compare", "exp">>)
    ELSE Return(Mul(alpha, Sub(Exp(x), PyInt(1))),
                <<"verify x", "verify alpha", "compare", "exp", "sub", "mul">>)

softplus(x) ==
    IF ~verify_type(x, NumTypes) THEN Raise("TypeMismatch", <<"verify x">>)
    ELSE IF ExpOverflows(x) THEN Raise("OverflowError", <<"verify x", "exp">>)
    ELSE Return(Log(Add(PyInt(1), Exp(x))), <<"verify x", "exp", "add", "log">>)

(* ------------------------------ inputs ------------------------------- *)

FiniteInputs == {-Huge, Huge} \cup (-MaxAbs .. MaxAbs)

NumberInputs ==
    {Fin(ty, i, 1) : ty \in {"int", "float"}, i \in FiniteInputs}
    \cup {Fin(ty, i, 1) : ty \in nptypes, i \in {0, 1}}
    \cup {Fin(ty, -1, 1) : ty \in nptypes \ UnsignedTypes}
    \cup UNION {{PInf(ty), NInf(ty), NaN(ty)} : ty \in FloatTypes}

OtherInputs == {PyStr, PyTrue, PyNone, PySeq("list", <<>>), PySeq("list", <<PyFloat(0)>>)}

\* what a caller may pass for x
XInputs == NumberInputs \cup OtherInputs

\* what a caller may pass for threshold, lp, alpha: also a fractional slope
ParamInputs == XInputs \cup {Fin("float", 1, 2), Fin("float", 1, 10)}

\* -x on a nonzero unsigned NumPy scalar wraps modulo 2^width; Neg does not
\* model the wrap, and the two functions that negate x are not called on these
NegInputs == {v \in XInputs : ~(v.ty \in UnsignedTypes /\ v.n # 0)}

\* the elements a sequence may hold: numbers, of the element type ety
ElemInputs(ety) ==
    {Fin(ety, i, 1) : i \in {-Huge, -1, 0, 1, Huge}} \cup {PInf(ety), NInf(ety), NaN(ety)}

SeqsOf(ty, ety) ==
    {PySeq(ty, s) : s \in UNION {[1 .. k -> ElemInputs(ety)] : k \in 0 .. MaxLen}}

\* lists of floats and one-dimensional arrays of float64
SeqInputs == SeqsOf("list", "float") \cup SeqsOf("ndarray", "float64")

(* ------------------------------ actions ------------------------------ *)

Init ==
    /\ fn = "none"
    /\ args = <<>>
    /\ outcome = "none"
    /\ result = NoValue
    /\ trace = <<>>

\* a call runs to completion from the idle state: the module is synchronous
Finish(name, as, r) ==
    /\ fn' = name
    /\ args' = as
    /\ outcome' = r.outcome
    /\ result' = r.result
    /\ trace' = r.trace

\* step(x, threshold=0)
CallStep ==
    /\ fn = "none"
    /\ \E x \in XInputs, t \in ParamInputs \cup {Omitted} :
          Finish("step", <<x, t>>, step(x, IF t = Omitted THEN PyInt(0) ELSE t))

CallRelu ==
    /\ fn = "none"
    /\ \E x \in XInputs : Finish("relu", <<x>>, relu(x))

\* the caller takes the value or the exception and is ready for the next call
Resume ==
    /\ fn # "none"
    /\ fn' = "none"
    /\ args' = <<>>
    /\ outcome' = "none"
    /\ result' = NoValue
    /\ trace' = <<>>

CallSigmoid ==
    /\ fn = "none"
    /\ \E x \in NegInputs : Finish("sigmoid", <<x>>, sigmoid(x))

CallLeakyRelu ==
    /\ fn = "none"
    /\ \E x \in XInputs : Finish("leaky_relu", <<x>>, leaky_relu(x))

CallTanh ==
    /\ fn = "none"
    /\ \E x \in NegInputs : Finish("tanh", <<x>>, tanh(x))

\* softmax(x, n=None)
CallSoftmax ==
    /\ fn = "none"
    /\ \E x \in SeqInputs \cup XInputs, n \in XInputs \cup {Omitted} :
          Finish("softmax", <<x, n>>, softmax(x, IF n = Omitted THEN PyNone ELSE n))

CallPrelu ==
    /\ fn = "none"
    /\ \E x \in XInputs, lp \in ParamInputs : Finish("prelu", <<x, lp>>, prelu(x, lp))

CallElu ==
    /\ fn = "none"
    /\ \E x \in XInputs, alpha \in ParamInputs : Finish("elu", <<x, alpha>>, elu(x, alpha))

CallSoftplus ==
    /\ fn = "none"
    /\ \E x \in XInputs : Finish("softplus", <<x>>, softplus(x))

Next ==
    \/ CallStep
    \/ CallSigmoid
    \/ CallRelu
    \/ CallLeakyRelu
    \/ CallTanh
    \/ CallSoftmax
    \/ CallPrelu
    \/ CallElu
    \/ CallSoftplus
    \/ Resume

Spec == Init /\ [][Next]_vars

(* ------------------------------ claims ------------------------------- *)

\* the first argument of the call
X == args[1]

\* the second argument as the function body sees it, its default filled in
P == IF args[2] # Omitted THEN args[2] ELSE IF fn = "step" THEN PyInt(0) ELSE PyNone

\* the accepted-type set of argument i of function name
AcceptedTypes(name, i) ==
    IF name # "softmax" THEN NumTypes
    ELSE IF i = 1 THEN SeqTypes ELSE {"int", "NoneType"}

SomeBadType ==
    \/ X.ty \notin AcceptedTypes(fn, 1)
    \/ Len(args) = 2 /\ P.ty \notin AcceptedTypes(fn, 2)

Events == {trace[i] : i \in 1 .. Len(trace)}

\* equal as values: numerically equal, or both NaN
SameValue(a, b) == IF a.k = "nan" \/ b.k = "nan" THEN a.k = b.k ELSE NumEq(a, b)

\* the finite number v is above (below) the integer c
Above(v, c) == v.k = "fin" /\ v.n > c * v.d

Below(v, c) == v.k = "fin" /\ v.n < c * v.d

\* math.exp(v) is a positive finite number: no overflow, no underflow to 0.0
InExpRange(v) == v.k = "fin" /\ ~Above(v, ExpMaxArg) /\ ~Below(v, ExpMinArg)

\* C1 (as claimed): a call with an argument whose type is outside the accepted
\* set ends in TypeMismatch and returns no value, whatever the other arguments.
C1_BadTypeIsTypeMismatch ==
    (fn # "none" /\ SomeBadType) => (outcome = "TypeMismatch" /\ result = NoValue)

\* C2: step returns the int 1 when x >= threshold and the int 0 otherwise, 1 at
\* x == threshold, and compares against 0 when the threshold is omitted.
C2_StepThreshold ==
    (fn = "step" /\ X.ty \in NumTypes /\ P.ty \in NumTypes) =>
        /\ outcome = "returned"
        /\ result \in {PyInt(0), PyInt(1)}
        /\ (result = PyInt(1)) <=> Ge(X, P)
        /\ (X.k = "fin" /\ P.k = "fin") =>
               ((result = PyInt(1)) <=> (X.n * P.d >= P.n * X.d))
        /\ NumEq(X, P) => result = PyInt(1)
        /\ args[2] = Omitted => ((result = PyInt(1)) <=> Ge(X, PyInt(0)))

C2_Witness ==
    /\ fn = "step" /\ outcome = "returned"
    /\ args[2] # Omitted /\ X.ty # P.ty /\ X.k = "fin" /\ NumEq(X, P)
    /\ result = PyInt(1)

\* C3 (as claimed): for every non-empty numeric sequence x and every integer n,
\* softmax(x, n) returns a one-element list holding element n of softmax(x).
C3_EveryIndexReturns ==
    (fn = "softmax" /\ X.ty \in SeqTypes /\ Len(X.items) > 0 /\ P.ty = "int") =>
        LET full == softmax(X, PyNone)
            len == Len(X.items)
        IN /\ outcome = "returned"
           /\ result.ty = "list"
           /\ Len(result.items) = 1
           /\ full.outcome = "returned"
           /\ -len <= P.n /\ P.n < len
           /\ result.items[1] =
                  full.result.items[IF P.n >= 0 THEN P.n + 1 ELSE len + P.n + 1]

\* C3 (amended): when softmax(x) returns and -len(x) <= n < len(x), softmax(x, n)
\* returns a one-element list holding element n of softmax(x), a negative n
\* counting from the end; any other integer n ends in IndexError; when
\* softmax(x) raises, softmax(x, n) raises the same error.
C3_IndexInRange ==
    (fn = "softmax" /\ X.ty \in SeqTypes /\ Len(X.items) > 0 /\ P.ty = "int") =>
        LET full == softmax(X, PyNone)
            len == Len(X.items)
        IN IF full.outcome # "returned" THEN outcome = full.outcome
           ELSE IF -len <= P.n /\ P.n < len THEN
               /\ outcome = "returned"
               /\ result.ty = "list"
               /\ Len(result.items) = 1
               /\ result.items[1] =
                      full.result.items[IF P.n >= 0 THEN P.n + 1 ELSE len + P.n + 1]
           ELSE outcome = "IndexError"

C3_Witness ==
    /\ fn = "softmax" /\ outcome = "returned"
    /\ Len(X.items) = 2 /\ X.items[1] # X.items[2]
    /\ P = PyInt(-1)
    /\ result.ty = "list" /\ Len(result.items) = 1 /\ result.items[1].k = "fin"

\* the outcome of a call whose arguments all have accepted types
ExpectedOutcome ==
    IF fn = "sigmoid" THEN
        (IF Below(X, -ExpMaxArg) THEN "OverflowError" ELSE "returned")
    ELSE IF fn = "tanh" THEN
        (IF Above(X, ExpMaxArg) \/ Below(X, -ExpMaxArg) THEN "OverflowError" ELSE "returned")
    ELSE IF fn = "softplus" THEN
        (IF Above(X, ExpMaxArg) THEN "OverflowError" ELSE "returned")
    ELSE IF fn = "softmax" THEN
        (LET len == Len(X.items) IN
         IF \E i \in 1 .. len : Above(X.items[i], ExpMaxArg) THEN "OverflowError"
         ELSE IF len > 0 /\ \A i \in 1 .. len :
                     Below(X.items[i], ExpMinArg) \/ X.items[i].k = "ninf"
              THEN "ZeroDivisionError"
         ELSE IF P.ty = "int" /\ ~(-len <= P.n /\ P.n < len) THEN "IndexError"
         ELSE "returned")
    ELSE "returned"

C5_EmptyIsZeroDivision ==
    (fn = "softmax" /\ X = PySeq("list", <<>>) /\ args[2] = Omitted) =>
        (outcome = "ZeroDivisionError" /\ result = NoValue)

\* C5 (amended): softmax of an empty sequence, n omitted, performs no division
\* and returns the empty list.
C5_EmptyReturnsEmpty ==
    (fn = "softmax" /\ X.ty \in SeqTypes /\ Len(X.items) = 0 /\ args[2] = Omitted) =>
        /\ outcome = "returned"
        /\ result = PySeq("list", <<>>)
        /\ "div" \notin Events

C5_Witness ==
    /\ fn = "softmax" /\ X = PySeq("list", <<>>) /\ args[2] = Omitted
    /\ outcome = "returned" /\ result.items = <<>>

\* the result is the distribution of x: element i is w_i / sum of w_j with
\* w_i = exp(x[i]), strictly positive, and the elements sum to 1
IsDistribution ==
    LET w == [i \in 1 .. Len(X.items) |-> Exp(X.items[i])]
    IN /\ outcome = "returned"
       /\ result.ty = "list"
       /\ Len(result.items) = Len(X.items)
       /\ \A i \in 1 .. Len(X.items) :
              /\ result.items[i].k = "fin"
              /\ result.items[i].n > 0
              /\ w[i].k = "fin" /\ w[i].n > 0
              /\ NumEq(Mul(result.items[i], PySum(w)), w[i])
       /\ NumEq(PySum(result.items), PyInt(1))

C7_ReluIsMax ==
    (fn = "relu" /\ X.ty \in NumTypes) =>
        /\ outcome = "returned"
        /\ Gt(PyInt(0), X) => result = PyInt(0)
        /\ IsZero(X) => IsZero(result)
        /\ Gt(X, PyInt(0)) => result = X
        /\ ~Gt(PyInt(0), result)
        /\ result.k # "nan"

C7_Witness ==
    /\ fn = "relu" /\ outcome = "returned"
    /\ X.ty = "float" /\ Gt(PyInt(0), X)
    /\ result = PyInt(0)

\* the product lp * x of a slope 0 <= lp <= 1 and a negative x
IsSlopeTimes(r, lp, x) ==
    IF x.k = "ninf" THEN (IF IsZero(lp) THEN r.k = "nan" ELSE r.k = "ninf")
    ELSE r.k = "fin" /\ r.n * (lp.d * x.d) = lp.n * x.n * r.d

C10_ChecksBeforeArithmetic ==
    fn # "none" =>
        /\ \A i, j \in 1 .. Len(trace) :
               (i < j) => ~(trace[i] \in ArithEvents /\ trace[j] \in VerifyEvents)
        /\ outcome = "TypeMismatch" => Events \cap ArithEvents = {}

====
